---- MODULE Spec2Model ----
(***************************************************************************)
(* A model of the two-pass MIPS assembler core: the symbol table of        *)
(* src/tables.c and the pass-one / pass-two translators of                 *)
(* src/translate.c.                                                        *)
(*                                                                         *)
(* The program is single-threaded.  Every API call is one action, except   *)
(* that add_to_table can fail to return: its copy-back loop                *)
(* (tables.c:132-135) never advances its index, so a call that reaches the *)
(* loop with a non-empty table is left at pc = "copy_back".                *)
(***************************************************************************)
EXTENDS Integers, Sequences, FiniteSets, TLC

VARIABLES
    symtbl,     \* the label table          (SymbolTable*, translate.c:100)
    reltbl,     \* the relocation table     (SymbolTable*, translate.c:100)
    output,     \* what has been written to the FILE* output, in order
    call,       \* the API call made last, with its arguments and its result
    pc,         \* "idle" between calls, "copy_back" inside tables.c:133-135
    frame       \* the locals of the add_to_table call that is in its loop

vars == <<symtbl, reltbl, output, call, pc, frame>>

(***************************************************************************)
(* Bounds of the model.                                                    *)
(***************************************************************************)
MaxLen == 2         \* add_to_table is called only on tables shorter than this
MaxLines == 1       \* write_pass_one is called only while output is shorter
MaxOut == 2         \* translate_inst is called only while output is shorter
MaxLabels == 1      \* pass two starts with at most this many labels
MaxWords == 1       \* the register-register runs stop at this many words

(***************************************************************************)
(* Program constants.                                                      *)
(***************************************************************************)
SYMTBL_NON_UNIQUE == 0
SYMTBL_UNIQUE_NAME == 1
INITIAL_SIZE == 5
TWO_POW_SEVENTEEN == 131072

(***************************************************************************)
(* Wide integers.  A C long or a uint32_t word is held as <<q, r>>, standing*)
(* for q * 2^16 + r with 0 <= r < 2^16, so that 32-bit words and the       *)
(* out-of-range immediates of the tests are exact.                         *)
(***************************************************************************)
Half == 2^16

ToWide(n) == <<n \div Half, n % Half>>
WideLeq(x, y) == x[1] < y[1] \/ (x[1] = y[1] /\ x[2] <= y[2])
WideBetween(v, lo, hi) == WideLeq(lo, v) /\ WideLeq(v, hi)

\* <limits.h>, with int 32 bits wide.
INT_MIN_W == <<-(2^15), 0>>
INT_MAX_W == <<2^15 - 1, Half - 1>>
UINT_MAX_W == <<Half - 1, Half - 1>>

\* v << k computed as the C expression computes it and converted to uint32_t.
\* For an opcode of 0x20 or more, opcode << 26 exceeds INT_MAX in the int the
\* uint8_t is promoted to; the bits kept are those of the product modulo
\* 2^32, which is what the conversion to uint32_t leaves.
ShlU32(v, k) ==
    IF k >= 16 THEN <<(v * 2^(k - 16)) % Half, 0>>
    ELSE <<((v * 2^k) \div Half) % Half, (v * 2^k) % Half>>

\* uint32_t instruction; instruction += x, x a wide value: sum modulo 2^32.
AddU32(w, x) ==
    <<(w[1] + x[1] + ((w[2] + x[2]) \div Half)) % Half, (w[2] + x[2]) % Half>>

(***************************************************************************)
(* Inputs.                                                                 *)
(***************************************************************************)
Names == {"a", "b"}                 \* symbol names
TableIds == {"symtbl", "reltbl"}
Modes == {SYMTBL_NON_UNIQUE, SYMTBL_UNIQUE_NAME}
AddAddrs == {0, 2, 4, 8}            \* addresses offered to add_to_table

(***************************************************************************)
(* tables.c                                                                *)
(***************************************************************************)

\* create_table: an empty table of the given mode.
create_table(mode) ==
    [tbl |-> <<>>, len |-> 0, cap |-> INITIAL_SIZE, mode |-> mode]

\* The slot realloc adds at the end: its contents are indeterminate until
\* tables.c:139 stores the new symbol; nothing reads it before that.
UninitSymbol == [name |-> "?", addr |-> 0]

\* Mutant of Misaligned: the test is made on addr % 2.
Misaligned_Mod2(addr) == (addr % 2) # 0

\* tables.c:98: the alignment test on the uint32_t address.
Misaligned(addr) == (addr % 4) # 0

\* tables.c:109-120: the scan that copies the symbols and rejects a name
\* already present when the mode is SYMTBL_UNIQUE_NAME.
NameAlreadyExists(table, name) ==
    \E count \in 1..table.len :
        /\ table.tbl[count].name = name
        /\ table.mode = SYMTBL_UNIQUE_NAME

\* tables.c:124-125: len is incremented and the array reallocated; realloc
\* keeps the old symbols.
Grown(table) ==
    [table EXCEPT !.len = @ + 1, !.tbl = Append(@, UninitSymbol)]

\* tables.c:133: the guard of the copy-back loop, with i the frame's index.
CopyBackGuard(table, i) == i < table.len - 1

\* Mutant of StoreNew: the new symbol is stored one slot too low.
StoreNew_OffByOne(table, name, addr) ==
    [table EXCEPT !.tbl[table.len - 1] = [name |-> name, addr |-> addr]]

\* tables.c:138-139: the new symbol is stored in the last slot.
StoreNew(table, name, addr) ==
    [table EXCEPT !.tbl[table.len] = [name |-> name, addr |-> addr]]

\* add_to_table up to its return or to its entry into the copy-back loop.
\* ret is <<r>> when the call returned r and <<>> when it is in the loop.
add_to_table(table, name, addr) ==
    IF Misaligned(addr)
    THEN [table |-> table, ret |-> <<-1>>, loc |-> <<>>]
    ELSE IF NameAlreadyExists(table, name)
    THEN [table |-> table, ret |-> <<-1>>, loc |-> <<>>]
    ELSE IF CopyBackGuard(Grown(table), 0)
    THEN [table |-> Grown(table), ret |-> <<>>,
          loc |-> <<[i |-> 0, copy |-> table.tbl, name |-> name, addr |-> addr]>>]
    ELSE [table |-> StoreNew(Grown(table), name, addr), ret |-> <<0>>, loc |-> <<>>]

\* get_addr_for_symbol: the address of the first symbol of that name, else -1.
RECURSIVE ScanFrom(_, _, _)
ScanFrom(table, name, count) ==
    IF count > table.len THEN -1
    ELSE IF table.tbl[count].name = name THEN table.tbl[count].addr
    ELSE ScanFrom(table, name, count + 1)

get_addr_for_symbol(table, name) == ScanFrom(table, name, 1)

(***************************************************************************)
(* translate_utils (declared in translate_utils.h, defined outside src/).  *)
(***************************************************************************)

\* translate_reg: the register number of a register name, -1 for any other
\* string.  The names and numbers are those the unit tests assert, and $ra,
\* the highest register, number 31.
RegNum ==
    ("$0" :> 0) @@ ("$at" :> 1) @@ ("$v0" :> 2) @@ ("$a0" :> 4) @@
    ("$t3" :> 11) @@ ("$s0" :> 16) @@ ("$s1" :> 17) @@ ("$ra" :> 31)

translate_reg(str) == IF str \in DOMAIN RegNum THEN RegNum[str] ELSE -1

\* The numerals offered as operands, with the value strtol gives each.  A
\* string outside the domain ("35x", a register, a label) does not parse.
NumVal ==
    ("0" :> ToWide(0)) @@ ("31" :> ToWide(31)) @@ ("32" :> ToWide(32)) @@
    ("100" :> ToWide(100)) @@ ("-1" :> ToWide(-1)) @@ ("-4" :> ToWide(-4)) @@
    ("0x10" :> ToWide(16)) @@
    ("32767" :> ToWide(32767)) @@ ("32768" :> ToWide(32768)) @@
    ("-32768" :> ToWide(-32768)) @@ ("-32769" :> ToWide(-32769)) @@
    ("65535" :> ToWide(65535)) @@ ("65536" :> ToWide(65536)) @@
    ("432096" :> ToWide(432096)) @@
    ("2147483647" :> <<2^15 - 1, Half - 1>>) @@
    ("4294967295" :> <<Half - 1, Half - 1>>) @@
    ("4294967296" :> <<Half, 0>>) @@
    ("-2147483649" :> <<-(2^15) - 1, Half - 1>>)

\* translate_num(&out, str, lo, hi): -1 when str is no number or the number
\* is outside lo..hi, else 0 with the number stored in out.
translate_num(str, lo, hi) ==
    IF str \notin DOMAIN NumVal THEN [err |-> -1, out |-> <<0, 0>>]
    ELSE IF ~WideBetween(NumVal[str], lo, hi) THEN [err |-> -1, out |-> <<0, 0>>]
    ELSE [err |-> 0, out |-> NumVal[str]]

\* translate_num with LONG_MIN and LONG_MAX: every long lies between them.
translate_num_long(str) ==
    IF str \notin DOMAIN NumVal THEN [err |-> -1, out |-> <<0, 0>>]
    ELSE [err |-> 0, out |-> NumVal[str]]

\* write_inst_hex(output, instruction): one 32-bit word is written.
write_inst_hex(instruction) == <<instruction>>

\* write_inst_string(output, name, args, num_args): one line holding the
\* mnemonic followed by its operands, in order.
write_inst_string(name, args) == <<(<<name>> \o args)>>

(***************************************************************************)
(* translate.c, pass one.                                                  *)
(***************************************************************************)
PseudoNames ==
    {"li", "move", "blt", "bgt", "traddu", "swpr", "mul", "div", "rem"}

\* Mutant of write_pass_one: the rem branch is missing, so rem falls through
\* to the general case.
write_pass_one_RemFallsThrough(name, args) ==
    IF name \in PseudoNames \ {"rem"}
    THEN [ret |-> 0, out |-> <<>>]
    ELSE [ret |-> 1, out |-> write_inst_string(name, args)]

\* Mutant of write_pass_one: a general instruction without operands is
\* rejected.
write_pass_one_ChecksArgs(name, args) ==
    IF name \in PseudoNames \/ Len(args) = 0
    THEN [ret |-> 0, out |-> <<>>]
    ELSE [ret |-> 1, out |-> write_inst_string(name, args)]

\* write_pass_one: ret is the number returned, out what is written.
write_pass_one(name, args) ==
    IF name \in PseudoNames
    THEN [ret |-> 0, out |-> <<>>]
    ELSE [ret |-> 1, out |-> write_inst_string(name, args)]

(***************************************************************************)
(* translate.c, pass two: the encoders.  Each gives ret, the value         *)
(* returned, and out, the words written.                                   *)
(***************************************************************************)
Failed == [ret |-> -1, out |-> <<>>]
Written(instruction) == [ret |-> 0, out |-> write_inst_hex(instruction)]

\* uint32_t instruction = parts[1]; instruction += parts[2]; ...
RECURSIVE SumU32(_, _)
SumU32(parts, n) ==
    IF n = 1 THEN AddU32(<<0, 0>>, parts[1])
    ELSE AddU32(SumU32(parts, n - 1), parts[n])

Instruction(parts) == SumU32(parts, Len(parts))

\* Mutant of write_rtype: rs and rt change places in the word.
write_rtype_SwapRsRt(funct, args) ==
    IF Len(args) # 3 THEN Failed
    ELSE LET rd == translate_reg(args[1])
             rs == translate_reg(args[2])
             rt == translate_reg(args[3])
         IN IF rs = -1 \/ rd = -1 \/ rt = -1 THEN Failed
            ELSE Written(Instruction(<<ShlU32(0, 26), ShlU32(rt, 21),
                                       ShlU32(rs, 16), ShlU32(rd, 11),
                                       ShlU32(0, 6), ToWide(funct)>>))

write_rtype(funct, args) ==
    IF Len(args) # 3 THEN Failed
    ELSE LET rd == translate_reg(args[1])
             rs == translate_reg(args[2])
             rt == translate_reg(args[3])
         IN IF rs = -1 \/ rd = -1 \/ rt = -1 THEN Failed
            ELSE Written(Instruction(<<ShlU32(0, 26), ShlU32(rs, 21),
                                       ShlU32(rt, 16), ShlU32(rd, 11),
                                       ShlU32(0, 6), ToWide(funct)>>))

write_shift(funct, args) ==
    IF Len(args) # 3 THEN Failed
    ELSE LET rd == translate_reg(args[1])
             rt == translate_reg(args[2])
             s == translate_num(args[3], ToWide(0), ToWide(31))
         IN IF rd = -1 \/ rt = -1 \/ s.err = -1 THEN Failed
            ELSE Written(Instruction(<<ShlU32(0, 26), ShlU32(0, 21),
                                       ShlU32(rt, 16), ShlU32(rd, 11),
                                       ShlU32(s.out[2], 6), ToWide(funct)>>))

write_jr(funct, args) ==
    IF Len(args) # 1 THEN Failed
    ELSE LET rs == translate_reg(args[1])
         IN IF rs = -1 THEN Failed
            ELSE Written(Instruction(<<ShlU32(0, 26), ShlU32(rs, 21),
                                       ShlU32(0, 16), ShlU32(0, 11),
                                       ShlU32(0, 6), ToWide(funct)>>))

\* translate.c:225 lacks its semicolon; the two statements are read as the
\* two additions they are laid out as.
write_addiu(opcode, args) ==
    IF Len(args) # 3 THEN Failed
    ELSE LET rs == translate_reg(args[1])
             rt == translate_reg(args[2])
             i == translate_num(args[3], INT_MIN_W, INT_MAX_W)
         IN IF rs = -1 \/ rt = -1 THEN Failed
            ELSE IF i.err = -1 THEN Failed
            ELSE Written(Instruction(<<ShlU32(opcode, 26), ShlU32(rt, 21),
                                       ShlU32(rs, 16), i.out>>))

write_ori(opcode, args) ==
    IF Len(args) # 3 THEN Failed
    ELSE LET rt == translate_reg(args[1])
             rs == translate_reg(args[2])
             i == translate_num(args[3], ToWide(0), UINT_MAX_W)
         IN IF rs = -1 \/ rt = -1 THEN Failed
            ELSE IF i.err = -1 THEN Failed
            ELSE Written(Instruction(<<ShlU32(opcode, 26), ShlU32(rs, 21),
                                       ShlU32(rt, 16), i.out>>))

write_lui(opcode, args) ==
    IF Len(args) # 2 THEN Failed
    ELSE LET rt == translate_reg(args[1])
             i == translate_num_long(args[2])
         IN IF rt = -1 THEN Failed
            ELSE IF i.err = -1 THEN Failed
            ELSE Written(Instruction(<<ShlU32(opcode, 26), ShlU32(0, 21),
                                       ShlU32(rt, 16), i.out>>))

write_mem(opcode, args) ==
    IF Len(args) # 3 THEN Failed
    ELSE LET rs == translate_reg(args[1])
             rt == translate_reg(args[3])
             i == translate_num(args[2], INT_MIN_W, INT_MAX_W)
         IN IF rt = -1 \/ rs = -1 THEN Failed
            ELSE IF i.err = -1 THEN Failed
            ELSE Written(Instruction(<<ShlU32(opcode, 26), ShlU32(rt, 21),
                                       ShlU32(rs, 16), i.out>>))

\* can_branch_to: defined in translate.c and called from nowhere.
can_branch_to(src_addr, dest_addr) ==
    LET diff == dest_addr - src_addr
    IN \/ (diff >= 0 /\ diff <= TWO_POW_SEVENTEEN)
       \/ (diff < 0 /\ diff >= -(TWO_POW_SEVENTEEN - 4))

\* Mutant of write_branch: the word is written before the label is looked up.
write_branch_WriteFirst(opcode, args, addr, table) ==
    IF Len(args) # 3 THEN Failed
    ELSE LET rs == translate_reg(args[1])
             rt == translate_reg(args[2])
             label_addr == get_addr_for_symbol(table, args[3])
         IN IF rt = -1 \/ rs = -1 THEN Failed
            ELSE IF label_addr = -1
            THEN [ret |-> -1, out |-> write_inst_hex(<<0, 0>>)]
            ELSE Written(<<0, 0>>)

\* write_branch: after the operand checks the word written is 0.
write_branch(opcode, args, addr, table) ==
    IF Len(args) # 3 THEN Failed
    ELSE LET rs == translate_reg(args[1])
             rt == translate_reg(args[2])
             label_addr == get_addr_for_symbol(table, args[3])
         IN IF rt = -1 \/ rs = -1 THEN Failed
            ELSE IF label_addr = -1 THEN Failed
            ELSE Written(<<0, 0>>)

\* write_jump: the value add_to_table returns is dropped.  ret is <<>> and
\* loc the locals of add_to_table when that call is in its copy-back loop.
write_jump(opcode, args, addr, table) ==
    IF Len(args) # 1
    THEN [ret |-> <<-1>>, out |-> <<>>, reltbl |-> table, loc |-> <<>>]
    ELSE LET r == add_to_table(table, args[1], addr)
         IN IF r.ret = <<>>
            THEN [ret |-> <<>>, out |-> <<>>, reltbl |-> r.table, loc |-> r.loc]
            ELSE [ret |-> <<0>>, out |-> write_inst_hex(ShlU32(opcode, 26)),
                  reltbl |-> r.table, loc |-> <<>>]

\* An encoder that does not touch the relocation table.
NoReloc(r, rel) ==
    [ret |-> <<r.ret>>, out |-> r.out, reltbl |-> rel, loc |-> <<>>]

\* translate_inst: the dispatch on the mnemonic (opcodes and functs in decimal).
translate_inst(name, args, addr, sym, rel) ==
    CASE name = "addu"  -> NoReloc(write_rtype(33, args), rel)
      [] name = "or"    -> NoReloc(write_rtype(37, args), rel)
      [] name = "slt"   -> NoReloc(write_rtype(42, args), rel)
      [] name = "sltu"  -> NoReloc(write_rtype(43, args), rel)
      [] name = "sll"   -> NoReloc(write_shift(0, args), rel)
      [] name = "jr"    -> NoReloc(write_jr(8, args), rel)
      [] name = "addiu" -> NoReloc(write_addiu(9, args), rel)
      [] name = "ori"   -> NoReloc(write_ori(13, args), rel)
      [] name = "lui"   -> NoReloc(write_lui(15, args), rel)
      [] name = "lb"    -> NoReloc(write_mem(32, args), rel)
      [] name = "lw"    -> NoReloc(write_mem(35, args), rel)
      [] name = "lbu"   -> NoReloc(write_mem(36, args), rel)
      [] name = "sb"    -> NoReloc(write_mem(40, args), rel)
      [] name = "sw"    -> NoReloc(write_mem(43, args), rel)
      [] name = "beq"   -> NoReloc(write_branch(4, args, addr, sym), rel)
      [] name = "bne"   -> NoReloc(write_branch(5, args, addr, sym), rel)
      [] name = "j"     -> write_jump(2, args, addr, rel)
      [] name = "jal"   -> write_jump(3, args, addr, rel)
      [] OTHER          -> NoReloc(Failed, rel)

(***************************************************************************)
(* State.                                                                  *)
(***************************************************************************)
Tbl(t) == IF t = "symtbl" THEN symtbl ELSE reltbl

NoCall == [fn |-> "none", tbl |-> "", name |-> "", args |-> <<>>, addr |-> 0,
           ret |-> <<>>]

Init ==
    /\ \E m \in Modes : symtbl = create_table(m)
    /\ \E m \in Modes : reltbl = create_table(m)
    /\ output = <<>>
    /\ call = NoCall
    /\ pc = "idle"
    /\ frame = <<>>

SetTbl(t, table) ==
    /\ symtbl' = IF t = "symtbl" THEN table ELSE symtbl
    /\ reltbl' = IF t = "reltbl" THEN table ELSE reltbl

(***************************************************************************)
(* The driver's calls on a table.                                          *)
(***************************************************************************)
AddToTable(t, name, addr) ==
    /\ pc = "idle"
    /\ Tbl(t).len < MaxLen
    /\ \E r \in {add_to_table(Tbl(t), name, addr)} :
        /\ SetTbl(t, r.table)
        /\ call' = [fn |-> "add_to_table", tbl |-> t, name |-> name,
                    args |-> <<>>, addr |-> addr, ret |-> r.ret]
        /\ pc' = IF r.ret = <<>> THEN "copy_back" ELSE "idle"
        /\ frame' = IF r.ret = <<>>
                    THEN <<[tbl |-> t, caller |-> "driver", opcode |-> 0,
                            loc |-> r.loc[1]]>>
                    ELSE <<>>
        /\ UNCHANGED output

GetAddrForSymbol(t, name) ==
    /\ pc = "idle"
    /\ call' = [fn |-> "get_addr_for_symbol", tbl |-> t, name |-> name,
                args |-> <<>>, addr |-> 0,
                ret |-> <<get_addr_for_symbol(Tbl(t), name)>>]
    /\ UNCHANGED <<symtbl, reltbl, output, pc, frame>>

\* tables.c:133-135: one iteration of the copy-back loop.  The body stores
\* copy[i] into tbl[i]; i is not advanced, so the guard stays true.
CopyBackIter ==
    /\ pc = "copy_back"
    /\ \E f \in {frame[1]} :
        /\ CopyBackGuard(Tbl(f.tbl), f.loc.i)
        /\ SetTbl(f.tbl, [Tbl(f.tbl) EXCEPT
                            !.tbl[f.loc.i + 1] = f.loc.copy[f.loc.i + 1]])
        /\ UNCHANGED <<output, call, pc, frame>>

\* tables.c:133-141 when the loop is left.  The loop does no input or
\* output and touches nothing volatile or atomic and its guard is no constant
\* expression, so a build may assume that it terminates (C11 6.8.5p6) and
\* drop it: the call then stores the new symbol and returns 0, and a
\* write_jump that made the call goes on to write its word.
CopyBackExit ==
    /\ pc = "copy_back"
    /\ \E f \in {frame[1]} :
        /\ SetTbl(f.tbl, StoreNew(Tbl(f.tbl), f.loc.name, f.loc.addr))
        /\ output' = IF f.caller = "write_jump"
                     THEN output \o write_inst_hex(ShlU32(f.opcode, 26))
                     ELSE output
        /\ call' = [call EXCEPT !.ret = <<0>>]
        /\ pc' = "idle"
        /\ frame' = <<>>

NextTables ==
    \/ \E t \in TableIds, name \in Names, addr \in AddAddrs :
            AddToTable(t, name, addr)
    \/ \E t \in TableIds, name \in Names : GetAddrForSymbol(t, name)
    \/ CopyBackIter
    \/ CopyBackExit

SpecTables == Init /\ [][NextTables]_vars

\* The same calls, with the running call always taking its next step: a call
\* inside the copy-back loop goes on iterating.  Leaving the loop is a choice
\* of the build and nothing obliges it.
SpecTablesFair == SpecTables /\ WF_vars(CopyBackIter)

(***************************************************************************)
(* Pass one: the driver's calls of write_pass_one.                         *)
(***************************************************************************)
PassOneNames == PseudoNames \cup {"addu", "j", "xyz"}
PassOneArgs ==
    { <<>>, <<"$s0">>, <<"$s0", "100">>, <<"$s0", "432096">>,
      <<"$s0", "4294967296">>, <<"$s0", "-2147483649">>,
      <<"$s0", "32767">>, <<"$s0", "-32768">>, <<"$s0", "32768">>,
      <<"$s0", "4294967295">>,
      <<"$v0", "$s0", "$s1">>, <<"$v0", "$s0", "a">>,
      <<"$v0", "$s0", "$s1", "$at">> }

WritePassOne(name, args) ==
    /\ pc = "idle"
    /\ Len(output) < MaxLines
    /\ \E r \in {write_pass_one(name, args)} :
        /\ output' = output \o r.out
        /\ call' = [fn |-> "write_pass_one", tbl |-> "", name |-> name,
                    args |-> args, addr |-> 0, ret |-> <<r.ret>>]
        /\ UNCHANGED <<symtbl, reltbl, pc, frame>>

NextPassOne ==
    \E name \in PassOneNames, args \in PassOneArgs : WritePassOne(name, args)

SpecPassOne == Init /\ [][NextPassOne]_vars

(***************************************************************************)
(* Pass two: the driver fills the label table, then calls translate_inst.  *)
(***************************************************************************)
LabelNames == {"a"}
LabelAddrs == {8, 2^20}
InstAddrs == {2, 4}

\* Every mnemonic of the dispatch with operands it accepts.
GoodInsts ==
    ({"addu", "or", "slt", "sltu"} \X {<<"$s1", "$v0", "$at">>} \X {4})
    \cup ({"sll"} \X {<<"$s1", "$v0", "31">>} \X {4})
    \cup ({"jr"} \X {<<"$v0">>} \X {4})
    \cup ({"addiu", "ori"} \X {<<"$s1", "$v0", "100">>} \X {4})
    \cup ({"lui"} \X {<<"$s1", "100">>} \X {4})
    \cup ({"lb", "lw", "lbu", "sb", "sw"} \X {<<"$s1", "-4", "$v0">>} \X {4})
    \cup ({"beq", "bne"} \X {<<"$s1", "$v0", "a">>} \X InstAddrs)
    \cup ({"j", "jal"} \X {<<"a">>} \X InstAddrs)

\* Wrong operand counts, operands that do not parse, values at the edges of
\* the ranges, and mnemonics the dispatch does not know.
EdgeInsts ==
    ({"addu"} \X {<<"$s1", "$3", "$at">>, <<"$s1", "$v0">>} \X {4})
    \cup ({"sll"} \X {<<"$s1", "$v0", "32">>, <<"$s1", "$v0">>} \X {4})
    \cup ({"jr"} \X {<<"asdf">>, <<>>} \X {4})
    \cup ({"addiu"}
        \X {<<"$s1", "$v0", "-1">>, <<"$s1", "$v0", "35x">>, <<"$s1", "$v0">>}
        \X {4})
    \cup ({"ori"} \X {<<"$s1", "$v0", "65536">>, <<"$s1", "$v0", "-1">>} \X {4})
    \cup ({"lui"} \X {<<"$s1", "65536">>, <<"$3", "100">>} \X {4})
    \cup ({"lw"} \X {<<"$s1", "32768", "$v0">>, <<"$s1", "$v0">>} \X {4})
    \cup ({"beq"} \X {<<"$s1", "$3", "a">>, <<"$s1", "$v0">>} \X {4})
    \cup ({"j"} \X {<<>>, <<"a", "b">>} \X {4})
    \cup ({"xyz", "li"} \X {<<"$s1", "100">>} \X {4})

Insts == GoodInsts \cup EdgeInsts

\* The driver enters a label in the label table; it enters every label
\* before it translates the first instruction.
AddLabel(name, addr) ==
    /\ symtbl.len < MaxLabels
    /\ call.fn # "translate_inst"
    /\ AddToTable("symtbl", name, addr)

TranslateInst(name, args, addr) ==
    /\ pc = "idle"
    /\ Len(output) < MaxOut
    /\ \E r \in {translate_inst(name, args, addr, symtbl, reltbl)} :
        /\ output' = output \o r.out
        /\ reltbl' = r.reltbl
        /\ call' = [fn |-> "translate_inst", tbl |-> "", name |-> name,
                    args |-> args, addr |-> addr, ret |-> r.ret]
        /\ pc' = IF r.ret = <<>> THEN "copy_back" ELSE "idle"
        /\ frame' = IF r.ret = <<>>
                    THEN <<[tbl |-> "reltbl", caller |-> "write_jump",
                            opcode |-> IF name = "j" THEN 2 ELSE 3,
                            loc |-> r.loc[1]]>>
                    ELSE <<>>
        /\ UNCHANGED symtbl

NextPassTwo ==
    \/ \E name \in LabelNames, addr \in LabelAddrs : AddLabel(name, addr)
    \/ \E inst \in Insts : TranslateInst(inst[1], inst[2], inst[3])
    \/ CopyBackIter
    \/ CopyBackExit

SpecPassTwo == Init /\ [][NextPassTwo]_vars

(***************************************************************************)
(* Pass two on register-register instructions alone: every mnemonic that   *)
(* write_rtype serves, with every triple of the registers below.           *)
(***************************************************************************)
RTypeNames == {"addu", "or", "slt", "sltu"}
RTypeRegs == {"$0", "$v0", "$t3", "$s1", "$ra"}

EncodeRType(name, rd, rs, rt) ==
    /\ Len(output) < MaxWords
    /\ TranslateInst(name, <<rd, rs, rt>>, 4)

NextRType ==
    \E name \in RTypeNames, rd \in RTypeRegs, rs \in RTypeRegs, rt \in RTypeRegs :
        EncodeRType(name, rd, rs, rt)

SpecRType == Init /\ [][NextRType]_vars

(***************************************************************************)
(* The whole program.                                                      *)
(***************************************************************************)
Next == NextTables \/ NextPassOne \/ NextPassTwo \/ NextRType

Spec == Init /\ [][Next]_vars

(***************************************************************************)
(* Vocabulary of the properties.                                           *)
(***************************************************************************)
TblNext(t) == IF t = "symtbl" THEN symtbl' ELSE reltbl'

\* A step in which the driver calls fn (a call starts only between calls).
Calls(fn) == pc = "idle" /\ call'.fn = fn

\* The symbols a table holds: the slot a call in its copy-back loop has
\* allocated and not yet filled is not one of them.
Entries(table, t, p, fr) ==
    IF p = "copy_back" /\ fr[1].tbl = t
    THEN SubSeq(table.tbl, 1, table.len - 1)
    ELSE table.tbl

\* A step in which a call of add_to_table on table t returns 0.
AddReturnsZero(t) ==
    /\ call'.fn = "add_to_table" /\ call'.tbl = t
    /\ call'.ret = <<0>> /\ pc' = "idle"
    /\ pc = "idle" \/ call.ret = <<>>

(***************************************************************************)
(* C1.  In a SYMTBL_UNIQUE_NAME table, add_to_table with a word-aligned    *)
(* address returns 0 when the name is not yet in the table and stores it;  *)
(* a second call with that name returns -1, leaves the length unchanged,   *)
(* and get_addr_for_symbol still gives the first address.                  *)
(***************************************************************************)
C1_UniqueSecondAddRejected ==
    [][ (Calls("add_to_table")
            /\ Tbl(call'.tbl).mode = SYMTBL_UNIQUE_NAME
            /\ call'.addr % 4 = 0)
        => LET old == Tbl(call'.tbl)
               new == TblNext(call'.tbl)
           IN IF get_addr_for_symbol(old, call'.name) = -1
              THEN /\ call'.ret = <<0>>
                   /\ get_addr_for_symbol(new, call'.name) = call'.addr
              ELSE /\ call'.ret = <<-1>>
                   /\ new.len = old.len
                   /\ get_addr_for_symbol(new, call'.name)
                        = get_addr_for_symbol(old, call'.name) ]_vars

(***************************************************************************)
(* C2.  In a SYMTBL_NON_UNIQUE table, add_to_table of a name the table     *)
(* already holds, with a word-aligned address, returns 0, appends the      *)
(* entry after the existing ones, and get_addr_for_symbol still gives the  *)
(* address inserted first.                                                 *)
(***************************************************************************)
C2_NonUniqueBothRetained ==
    [][ (Calls("add_to_table")
            /\ Tbl(call'.tbl).mode = SYMTBL_NON_UNIQUE
            /\ call'.addr % 4 = 0
            /\ get_addr_for_symbol(Tbl(call'.tbl), call'.name) # -1)
        => LET old == Tbl(call'.tbl)
               new == TblNext(call'.tbl)
           IN /\ call'.ret = <<0>>
              /\ new.len = old.len + 1
              /\ new.tbl = Append(old.tbl,
                                  [name |-> call'.name, addr |-> call'.addr])
              /\ get_addr_for_symbol(new, call'.name)
                    = get_addr_for_symbol(old, call'.name) ]_vars

(***************************************************************************)
(* C3.  add_to_table with an address that is not a multiple of 4 returns   *)
(* -1 and changes neither table, whatever the mode and the contents.       *)
(***************************************************************************)
C3_MisalignedRejected ==
    [][ (Calls("add_to_table") /\ call'.addr % 4 # 0)
        => /\ call'.ret = <<-1>>
           /\ symtbl' = symtbl
           /\ reltbl' = reltbl ]_vars

\* A misaligned add has been rejected on a non-empty table.
C3_Witness ==
    /\ call.fn = "add_to_table"
    /\ call.addr % 4 # 0
    /\ call.ret = <<-1>>
    /\ Tbl(call.tbl).len >= 1
    /\ pc = "idle"

(***************************************************************************)
(* C4.  Every add_to_table call with a word-aligned address and a name the *)
(* mode allows returns 0, and afterwards get_addr_for_symbol gives, for    *)
(* every name, the address of its earliest successful insertion, and -1    *)
(* for a name never inserted.                                              *)
(***************************************************************************)
C4_AllowedAddSucceeds ==
    [][ (Calls("add_to_table")
            /\ call'.addr % 4 = 0
            /\ ~(Tbl(call'.tbl).mode = SYMTBL_UNIQUE_NAME
                 /\ get_addr_for_symbol(Tbl(call'.tbl), call'.name) # -1))
        => LET old == Tbl(call'.tbl)
               new == TblNext(call'.tbl)
           IN /\ call'.ret = <<0>>
              /\ \A n \in Names :
                    get_addr_for_symbol(new, n) =
                        IF get_addr_for_symbol(old, n) # -1
                        THEN get_addr_for_symbol(old, n)
                        ELSE IF n = call'.name THEN call'.addr ELSE -1 ]_vars

(***************************************************************************)
(* C5.  A call of add_to_table that returns 0 has added exactly one symbol,*)
(* {name, addr}, after the symbols the table held, and the length counts   *)
(* it; no other step adds, removes, moves or rewrites a symbol.            *)
(***************************************************************************)
C5_AppendOnly ==
    [][ \A t \in TableIds :
          LET old == Entries(Tbl(t), t, pc, frame)
              new == Entries(TblNext(t), t, pc', frame')
          IN IF AddReturnsZero(t)
             THEN /\ new = Append(old, [name |-> call'.name, addr |-> call'.addr])
                  /\ TblNext(t).len = Len(old) + 1
             ELSE new = old ]_vars

\* An add has returned 0 and the table holds the symbol it was given.
C5_Witness ==
    /\ call.fn = "add_to_table"
    /\ call.ret = <<0>>
    /\ pc = "idle"
    /\ Tbl(call.tbl).len >= 1
    /\ Tbl(call.tbl).tbl[Tbl(call.tbl).len]
            = [name |-> call.name, addr |-> call.addr]

(***************************************************************************)
(* C6.  translate_inst of j or jal with exactly one operand returns, never *)
(* touches the label table, and returns 0 only when it has appended        *)
(* {label, address of the jump} to the relocation table and written the    *)
(* word opcode << 26, whose 26-bit target field is zero.                   *)
(***************************************************************************)
C6_JumpRecordsRelocation ==
    [][ (Calls("translate_inst")
            /\ call'.name \in {"j", "jal"}
            /\ Len(call'.args) = 1)
        => /\ call'.ret # <<>>
           /\ symtbl' = symtbl
           /\ call'.ret = <<0>> =>
                /\ reltbl'.len = reltbl.len + 1
                /\ reltbl'.tbl = Append(reltbl.tbl,
                        [name |-> call'.args[1], addr |-> call'.addr])
                /\ output' = Append(output,
                        <<(IF call'.name = "j" THEN 2 ELSE 3) * 2^10, 0>>) ]_vars

(***************************************************************************)
(* C7.  For every mnemonic and operand list, translate_inst returns 0      *)
(* exactly when it has written exactly one word; when it returns -1 it has *)
(* written nothing and the relocation table is as it was before the call.  *)
(* A call that has not returned has written nothing.                       *)
(***************************************************************************)
C7_ZeroIffOneWord ==
    [][ /\ (Calls("translate_inst") /\ pc' = "idle")
            => /\ call'.ret \in {<<0>>, <<-1>>}
               /\ call'.ret = <<0>> <=> Len(output') = Len(output) + 1
               /\ call'.ret = <<-1>> => (output' = output /\ reltbl' = reltbl)
               /\ SubSeq(output', 1, Len(output)) = output
        /\ (Calls("translate_inst") /\ pc' # "idle")
            => (call'.ret = <<>> /\ output' = output)
        /\ (pc = "copy_back" /\ call.fn = "translate_inst" /\ pc' = "idle")
            => (call'.ret = <<0>> /\ Len(output') = Len(output) + 1) ]_vars

\* A jump with a wrong operand count has failed after an earlier jump
\* succeeded: the word and the relocation entry of the earlier one remain.
C7_Witness ==
    /\ call.fn = "translate_inst"
    /\ call.name = "j"
    /\ call.ret = <<-1>>
    /\ Len(output) = 1
    /\ reltbl.len = 1

(***************************************************************************)
(* C8.  translate_inst of beq or bne with valid registers returns -1 and   *)
(* writes no word when the label is not in the label table, when           *)
(* target - (address + 4) is not a multiple of 4, or when the target is    *)
(* out of the reachable range.                                             *)
(***************************************************************************)
C8_BadBranchRejected ==
    [][ (Calls("translate_inst")
            /\ call'.name \in {"beq", "bne"}
            /\ Len(call'.args) = 3
            /\ translate_reg(call'.args[1]) # -1
            /\ translate_reg(call'.args[2]) # -1)
        => LET target == get_addr_for_symbol(symtbl, call'.args[3])
           IN (\/ target = -1
               \/ (target - (call'.addr + 4)) % 4 # 0
               \/ ~can_branch_to(call'.addr + 4, target))
              => (call'.ret = <<-1>> /\ output' = output) ]_vars

(***************************************************************************)
(* C9.  write_pass_one of li with two operands returns 1 when the          *)
(* immediate is in the signed 16-bit range, 2 when it is outside that      *)
(* range and representable in 32 bits, signed or unsigned, and 0 when it   *)
(* is not representable in 32 bits; it writes as many lines as it returns. *)
(***************************************************************************)
C9_LiWordCount ==
    [][ (Calls("write_pass_one")
            /\ call'.name = "li"
            /\ Len(call'.args) = 2
            /\ call'.args[2] \in DOMAIN NumVal)
        => LET imm == NumVal[call'.args[2]]
               n == IF WideBetween(imm, ToWide(-32768), ToWide(32767)) THEN 1
                    ELSE IF WideBetween(imm, INT_MIN_W, UINT_MAX_W) THEN 2
                    ELSE 0
           IN /\ call'.ret = <<n>>
              /\ Len(output') = Len(output) + n ]_vars

(***************************************************************************)
(* C10.  write_pass_one of rem with three operands returns 2 and writes    *)
(* exactly two lines.                                                      *)
(***************************************************************************)
C10_RemTwoLines ==
    [][ (Calls("write_pass_one")
            /\ call'.name = "rem"
            /\ Len(call'.args) = 3)
        => /\ call'.ret = <<2>>
           /\ Len(output') = Len(output) + 2 ]_vars

(***************************************************************************)
(* C11.  write_pass_one of a pseudo-mnemonic (li, move, blt, bgt, traddu,  *)
(* swpr, mul, div, rem) with a wrong operand count returns 0 and writes    *)
(* nothing.                                                                *)
(***************************************************************************)
\* The operand count each pseudo-instruction takes.
PseudoArity ==
    ("li" :> 2) @@ ("move" :> 2) @@ ("blt" :> 3) @@ ("bgt" :> 3) @@
    ("traddu" :> 3) @@ ("swpr" :> 2) @@ ("mul" :> 3) @@ ("div" :> 3) @@
    ("rem" :> 3)

C11_WrongArityWritesNothing ==
    [][ (Calls("write_pass_one")
            /\ call'.name \in DOMAIN PseudoArity
            /\ Len(call'.args) # PseudoArity[call'.name])
        => /\ call'.ret = <<0>>
           /\ output' = output ]_vars

\* rem has been called with four operands and nothing is in the output.
C11_Witness ==
    /\ call.fn = "write_pass_one"
    /\ call.name = "rem"
    /\ Len(call.args) = 4
    /\ call.ret = <<0>>
    /\ output = <<>>

(***************************************************************************)
(* C12.  write_pass_one of a mnemonic that is no pseudo-mnemonic writes    *)
(* one line, the mnemonic followed by the operands in their order, and     *)
(* returns 1, whatever the operand count and the operands.                 *)
(***************************************************************************)
C12_OthersPassThrough ==
    [][ (Calls("write_pass_one") /\ call'.name \notin DOMAIN PseudoArity)
        => /\ call'.ret = <<1>>
           /\ output' = Append(output, <<call'.name>> \o call'.args) ]_vars

\* An unknown mnemonic without operands has been passed through.
C12_Witness ==
    /\ call.fn = "write_pass_one"
    /\ call.name = "xyz"
    /\ call.args = <<>>
    /\ call.ret = <<1>>
    /\ output = << <<"xyz">> >>

(***************************************************************************)
(* The fields of a 32-bit word <<upper half, lower half>>.                 *)
(***************************************************************************)
Bits31_26(w) == w[1] \div 2^10
Bits25_21(w) == (w[1] \div 2^5) % 2^5
Bits20_16(w) == w[1] % 2^5
Bits15_11(w) == w[2] \div 2^11
Bits10_6(w) == (w[2] \div 2^6) % 2^5
Bits5_0(w) == w[2] % 2^6
Bits15_0(w) == w[2]

\* The word the call made last has written.
LastWord == output[Len(output)]

(***************************************************************************)
(* C13.  translate_inst of addu, or, slt or sltu with three valid          *)
(* registers rd, rs, rt returns 0 and writes a word with bits 31-26 = 0,   *)
(* bits 25-21 = rs, bits 20-16 = rt, bits 15-11 = rd, bits 10-6 = 0 and    *)
(* bits 5-0 = the funct code of the mnemonic.                              *)
(***************************************************************************)
RTypeFunct == ("addu" :> 33) @@ ("or" :> 37) @@ ("slt" :> 42) @@ ("sltu" :> 43)

C13_RTypeRoundTrip ==
    (/\ call.fn = "translate_inst"
     /\ call.name \in DOMAIN RTypeFunct
     /\ Len(call.args) = 3
     /\ \A k \in 1..3 : call.args[k] \in DOMAIN RegNum)
    => /\ call.ret = <<0>>
       /\ Len(output) >= 1
       /\ Bits31_26(LastWord) = 0
       /\ Bits25_21(LastWord) = RegNum[call.args[2]]
       /\ Bits20_16(LastWord) = RegNum[call.args[3]]
       /\ Bits15_11(LastWord) = RegNum[call.args[1]]
       /\ Bits10_6(LastWord) = 0
       /\ Bits5_0(LastWord) = RTypeFunct[call.name]

\* sltu $ra, $s1, $v0 has been encoded: 17 in rs, 2 in rt, 31 in rd.
C13_Witness ==
    /\ call.fn = "translate_inst"
    /\ call.name = "sltu"
    /\ call.args = <<"$ra", "$s1", "$v0">>
    /\ call.ret = <<0>>
    /\ output = << <<17 * 2^5 + 2, 31 * 2^11 + 43>> >>

(***************************************************************************)
(* C14.  translate_inst of beq or bne at address A with two valid          *)
(* registers and a label at T, T - (A + 4) a multiple of 4 and in range,   *)
(* writes one word with the opcode in bits 31-26, the registers in bits    *)
(* 25-21 and 20-16, and (T - (A + 4)) / 4 in two's complement in bits      *)
(* 15-0.                                                                   *)
(***************************************************************************)
BranchOpcode == ("beq" :> 4) @@ ("bne" :> 5)

C14_BranchWord ==
    [][ (Calls("translate_inst")
            /\ call'.name \in DOMAIN BranchOpcode
            /\ Len(call'.args) = 3
            /\ call'.args[1] \in DOMAIN RegNum
            /\ call'.args[2] \in DOMAIN RegNum)
        => LET target == get_addr_for_symbol(symtbl, call'.args[3])
               disp == target - (call'.addr + 4)
           IN (target # -1 /\ disp % 4 = 0 /\ can_branch_to(call'.addr + 4, target))
              => /\ Len(output') = Len(output) + 1
                 /\ Bits31_26(output'[Len(output')]) = BranchOpcode[call'.name]
                 /\ Bits25_21(output'[Len(output')]) = RegNum[call'.args[1]]
                 /\ Bits20_16(output'[Len(output')]) = RegNum[call'.args[2]]
                 /\ Bits15_0(output'[Len(output')]) = (disp \div 4) % Half ]_vars

(***************************************************************************)
(* C15.  translate_inst of addiu with two valid registers and an immediate *)
(* the call accepts writes one word whose bits 15-0 are the immediate      *)
(* modulo 2^16 and whose upper half is opcode 9 followed by the two        *)
(* register numbers, whatever the immediate.                               *)
(***************************************************************************)
C15_AddiuImmediate ==
    [][ (Calls("translate_inst")
            /\ call'.name = "addiu"
            /\ Len(call'.args) = 3
            /\ call'.args[1] \in DOMAIN RegNum
            /\ call'.args[2] \in DOMAIN RegNum
            /\ call'.ret = <<0>>)
        => /\ Len(output') = Len(output) + 1
           /\ Bits15_0(output'[Len(output')]) = NumVal[call'.args[3]][2]
           /\ Bits31_26(output'[Len(output')]) = 9
           /\ Bits25_21(output'[Len(output')]) = RegNum[call'.args[2]]
           /\ Bits20_16(output'[Len(output')]) = RegNum[call'.args[1]] ]_vars

(***************************************************************************)
(* C16.  translate_inst returns -1 and writes nothing for an ori whose     *)
(* immediate is outside 0..65535 and for lb, lw, lbu, sb or sw whose       *)
(* offset is outside -32768..32767.                                        *)
(***************************************************************************)
MemNames == {"lb", "lw", "lbu", "sb", "sw"}

C16_SixteenBitRangeEnforced ==
    [][ (Calls("translate_inst")
            /\ Len(call'.args) = 3
            /\ \/ /\ call'.name = "ori"
                  /\ call'.args[3] \in DOMAIN NumVal
                  /\ ~WideBetween(NumVal[call'.args[3]], ToWide(0), ToWide(65535))
               \/ /\ call'.name \in MemNames
                  /\ call'.args[2] \in DOMAIN NumVal
                  /\ ~WideBetween(NumVal[call'.args[2]],
                                  ToWide(-32768), ToWide(32767)))
        => /\ call'.ret = <<-1>>
           /\ output' = output ]_vars

(***************************************************************************)
(* C17.  Every call of add_to_table comes to an end and returns 0 or -1,   *)
(* whatever the length of the table: a call that is under way is followed  *)
(* by its return.                                                          *)
(***************************************************************************)
C17_AddToTableReturns ==
    (call.fn = "add_to_table" /\ pc = "copy_back")
        ~> (call.fn = "add_to_table" /\ pc = "idle" /\ call.ret \in {<<0>>, <<-1>>})

====
